---- MODULE Spec2Model ----
(***************************************************************************)
(* yosai_dpcache: the cache region (cache/region.py), the dogpile lock     *)
(* (dogpile/core/dogpile.py), the serialization proxy                      *)
(* (cache/proxybackend.py) and the Redis backend (cache/backends/redis.py) *)
(* as a state machine.  Every caller is a thread that runs one region      *)
(* operation at a time; get_or_create is split at each access to shared    *)
(* state (the mutex registry, the backend, the mutex), get / set / delete  *)
(* make one backend call and are one step each.                            *)
(*                                                                         *)
(* Python objects are sequences of strings, so that any two of them can be *)
(* compared: None is <<"None">>, the integer 0 is <<"0">>, the empty list  *)
(* is <<"[]">>.                                                            *)
(***************************************************************************)
EXTENDS Integers, Sequences, FiniteSets, TLC

\* ------------------------------------------------------------------ bounds
NumCallers == 3
MaxOps == 3

Callers == 1..NumCallers
MutexIds == 1..NumCallers
NoCaller == 0
NoMutex == 0
\* objects the region makes in configure (the backend, the mutex registry)
\* are numbered by the call that made them
NoObject == 0
FirstObject == 1

\* ------------------------------------------------------- python values
None == <<"None">>
Zero == <<"0">>
EmptyList == <<"[]">>
Obj == <<"obj">>
\* the sentinel the docstring of CacheRegion.get promises for a missing key
NO_VALUE == <<"NO_VALUE">>
\* dogpile.py: NOT_REGENERATED = object()
NOT_REGENERATED == <<"NOT_REGENERATED">>
\* a key the backend does not hold (the state of the Redis server, not a
\* python value: no call returns it)
Absent == <<"absent">>
Undecodable == <<"undecodable">>

\* what callers store and what creators return
Values == {None, Zero, EmptyList, Obj}
CreatorValues == {None, Zero, Obj}
\* the values in play when callers run concurrently
ConcurrentValues == {None, Obj}
\* python truthiness of the values above
EmptyString == <<"''">>
\* a timedelta, by its seconds and microseconds; timedelta(0) is falsy
Timedelta(seconds, microseconds) == <<"timedelta", seconds, microseconds>>
ZeroTimedelta == Timedelta("0", "0")
Truthy(v) ==
    v \notin {None, Zero, EmptyList, NO_VALUE, EmptyString, ZeroTimedelta}

\* expiration arguments: None, 0 and a positive number of seconds
Expirations == {None, Zero, <<"30">>}

\* DPCacheHandler: the attributes whose names end in _ttl, the domains
\* callers name (one with such an attribute, one without) and the
\* identifiers of cached objects
handler == (<<"absolute", "_ttl">> :> <<"60">>) @@
           (<<"credentials", "_ttl">> :> <<"10">>) @@
           (<<"authz_info", "_ttl">> :> <<"60">>) @@
           (<<"session", "_ttl">> :> <<"30">>)
Domains == {"session", "realm"}
Identifiers == {"id"}

\* DPCacheHandler.get_ttl: getattr(self, key + '_ttl', None)
get_ttl(domain) ==
    IF <<domain, "_ttl">> \in DOMAIN handler
    THEN handler[<<domain, "_ttl">>]
    ELSE None

\* DPCacheHandler.generate_key: "yosai:{0}:{1}".format(identifier, domain)
generate_key(identifier, domain) == <<"yosai", identifier, domain>>

\* the keys callers use are the keys the handler generates
Keys == {generate_key(i, d) : i \in Identifiers, d \in Domains}

\* key manglers: None (RedisBackend has no mangler of its own) or a user
\* defined one, which maps a key to another string
\* mutant of Mangle: the key goes to the backend as the caller gave it
MangleNothing(mangler, key) == key

Mangle(mangler, key) == IF mangler = None THEN key ELSE mangler \o key
BackendKeys == Keys \cup {<<"sha1">> \o k : k \in Keys}

\* exceptions
CreatorError(c) == <<"CreatorError", ToString(c)>>
BackendError == <<"BackendError">>
RegionAlreadyConfigured == <<"RegionAlreadyConfigured">>
RegionNotConfigured == <<"RegionNotConfigured">>
ValidationError == <<"ValidationError">>
AttributeError == <<"AttributeError">>
TypeError == <<"TypeError">>
PluginNotFound == <<"PluginNotFound">>
NoException == <<"no exception">>

\* ------------------------------------------------ the configured region
\* the states configure() leaves a region in (cachehandler.py
\* create_cache_region wraps the backend in one SerializationProxy)
Configs ==
    { [chain |-> <<>>, expiration_time |-> None, key_mangler |-> None],
      [chain |-> <<"msgpack", "zlib">>, expiration_time |-> <<"60">>,
       key_mangler |-> <<"sha1">>] }

\* the region DPCacheHandler.create_cache_region makes: expiration_time is
\* absolute_ttl and the backend is wrapped in one SerializationProxy with
\* the serialize / deserialize of the serialization manager
HandlerConfig ==
    [chain |-> <<"sm">>, expiration_time |-> handler[<<"absolute", "_ttl">>],
     key_mangler |-> None]

\* an attribute the region does not have (reading it is an AttributeError)
Unset == <<"unset">>
\* the arguments and the outcome of the last configure call
NoConfigure ==
    [backend |-> "none", expiration_time |-> None, wrap |-> <<>>,
     replace_existing_backend |-> FALSE, was_configured |-> FALSE,
     outcome |-> <<"none">>, made |-> NoObject]

VARIABLES
    backend,          \* region.backend: the proxies, outermost first; the
                      \* RedisBackend is below the last one
    raw,              \* the RedisBackend object below the proxies, NoObject
                      \* while the region has no backend attribute
    registry,         \* the NameRegistry object in region._lock_registry,
                      \* NoObject while the region has no such attribute
    expiration_time,  \* region.expiration_time
    key_mangler,      \* region.key_mangler
    store,            \* the Redis server: backend key -> [val, ttl] or Absent
    lock_registry,    \* region._lock_registry: backend key -> mutex or NoMutex
    locked,           \* _LockWrapper.lock of each mutex: its holder or NoCaller
    pc,               \* where each caller is in its operation
    key,              \* get_or_create: the mangled key
    mutex,            \* Lock.mutex of the caller's Lock object
    value,            \* Lock._enter: value
    createdtime,      \* Lock._enter: createdtime
    generated,        \* what _enter_create is about to return or raise
    ops,              \* operations started so far
    creatorCalls,     \* history: creator invocations per backend key
    last,             \* history: the last write that reached each backend key,
                      \* the expiration argument of the call that made it
                      \* and the backend object it went to
    pristine,         \* history: the key has seen nothing but get_or_create
                      \* calls begun on an empty cache, none of which failed
    ret,              \* history: the operation the last step completed, if any
    last_configure    \* history: the last configure call

vars == <<backend, raw, registry, expiration_time, key_mangler, store,
          lock_registry, locked, pc, key, mutex, value, createdtime, generated,
          ops, creatorCalls, last, pristine, ret, last_configure>>

config == <<backend, raw, registry, expiration_time, key_mangler,
            last_configure>>
locals == <<key, mutex, value, createdtime, generated>>

NoKey == <<"no key">>
NoRet == [c |-> NoCaller, op |-> "none", key |-> NoKey, kind |-> "none",
          val |-> None, path |-> "none", via |-> NoObject]
NoEntry == [val |-> Absent, ttl |-> None]
NoWrite == [op |-> "none", val |-> None, exp |-> None, via |-> NoObject]
NotGenerated == [exc |-> NoException, val |-> NOT_REGENERATED, path |-> "none"]

\* ------------------------------------------------------ the backend chain
\* RedisBackend.get: redis-py's client.get answers None for a missing key
RedisGet(k) == IF store[k].val = Absent THEN None ELSE store[k].val

\* the injected serialize / deserialize of a SerializationProxy: the codec
\* tags the payload, and decodes only what carries its tag; the None of a
\* missing key passes through deserialize unchanged
serialize(codec, v) == <<codec>> \o v
deserialize(codec, s) ==
    IF s = None THEN None
    ELSE IF Len(s) > 1 /\ Head(s) = codec THEN Tail(s)
    ELSE Undecodable

\* backend.get(key) on a chain of proxies: SerializationProxy.get reads
\* through proxied and deserializes on the way out
RECURSIVE ProxyGet(_, _)
ProxyGet(chain, k) ==
    IF chain = <<>> THEN RedisGet(k)
    ELSE deserialize(Head(chain), ProxyGet(Tail(chain), k))

\* backend.set(key, value, expiration) on a chain of proxies: what reaches
\* RedisBackend.set after every SerializationProxy.set has serialized it
RECURSIVE ProxySet(_, _)
ProxySet(chain, v) ==
    IF chain = <<>> THEN v
    ELSE ProxySet(Tail(chain), serialize(Head(chain), v))

\* RedisBackend.set
RedisSet(k, v, expiration) ==
    [store EXCEPT ![k] = [val |-> v, ttl |-> expiration]]

\* mutant of RedisDelete: the key is left in place
RedisDeleteNothing(k) == store

\* RedisBackend.delete
RedisDelete(k) == [store EXCEPT ![k] = NoEntry]

\* ------------------------------------------------------- the dogpile lock
\* Lock._has_value
has_value(ct) == ct > 0

\* mutant of no_value: the comparison of _has_value repeated, not negated
no_valueNotNegated(ct) == ct >= -1

\* Lock._no_value
no_value(ct) == ~has_value(ct)

\* mutant of create_mutex: one lock for the whole region
create_mutexGlobal == CHOOSE m \in MutexIds : \A n \in MutexIds : m <= n

\* CacheRegion._create_mutex: RedisBackend.get_mutex answers None without
\* distributed_lock, so the region makes a new _LockWrapper: a mutex no
\* caller and no registry entry refers to
create_mutex ==
    LET used == {mutex[c] : c \in Callers} \cup
                {lock_registry[k] : k \in BackendKeys}
        free == MutexIds \ used
    IN  CHOOSE m \in free : \A n \in free : m <= n

\* NameRegistry.get: the mutex registered for the key, made on first demand
RegistryGet(k) ==
    IF lock_registry[k] # NoMutex THEN lock_registry[k] ELSE create_mutex

\* mutant of RegionMutex: the registry is passed by, every call gets a mutex
\* of its own
RegionMutexFresh(k) == create_mutex

\* CacheRegion._mutex: self._lock_registry.get(key)
RegionMutex(k) == RegistryGet(k)

\* NameRegistry holds its values weakly: when the Lock object of the last
\* call for a key goes away, so does the key's mutex
RegistryDrop(c) ==
    IF \E d \in Callers \ {c} : mutex[d] = mutex[c]
    THEN lock_registry
    ELSE [k \in BackendKeys |->
            IF lock_registry[k] = mutex[c] THEN NoMutex ELSE lock_registry[k]]

\* nothing is cached, no caller is inside an operation
InitIdle ==
    /\ store = [k \in BackendKeys |-> NoEntry]
    /\ lock_registry = [k \in BackendKeys |-> NoMutex]
    /\ locked = [m \in MutexIds |-> NoCaller]
    /\ pc = [c \in Callers |-> "idle"]
    /\ key = [c \in Callers |-> NoKey]
    /\ mutex = [c \in Callers |-> NoMutex]
    /\ value = [c \in Callers |-> None]
    /\ createdtime = [c \in Callers |-> 0]
    /\ generated = [c \in Callers |-> NotGenerated]
    /\ ops = 0
    /\ creatorCalls = [k \in BackendKeys |-> 0]
    /\ last = [k \in BackendKeys |-> NoWrite]
    /\ pristine = [k \in BackendKeys |-> TRUE]
    /\ ret = NoRet
    /\ last_configure = NoConfigure

\* a region that configure() has configured
InitConfigured(cfg) ==
    /\ backend = cfg.chain
    /\ raw = FirstObject
    /\ registry = FirstObject
    /\ expiration_time = cfg.expiration_time
    /\ key_mangler = cfg.key_mangler
    /\ InitIdle

Init == \E cfg \in Configs : InitConfigured(cfg)

\* ----------------------------------------------------- how a call ends
\* mutant of Return: an operation comes back only while no other caller
\* holds the mutex of its key
ReturnUnderMutex(c, op, k, kind, val, path) ==
    /\ \A d \in Callers \ {c} : ~(key[d] = k /\ locked[mutex[d]] = d)
    /\ pc' = [pc EXCEPT ![c] = "idle"]
    /\ ret' = [c |-> c, op |-> op, key |-> k, kind |-> kind, val |-> val,
               path |-> path, via |-> raw]

\* mutant of Return: an error of the backend is swallowed, the caller gets
\* None
ReturnSwallowed(c, op, k, kind, val, path) ==
    /\ pc' = [pc EXCEPT ![c] = "idle"]
    /\ ret' = [c |-> c, op |-> op, key |-> k,
               kind |-> IF val = BackendError THEN "value" ELSE kind,
               val |-> IF val = BackendError THEN None ELSE val,
               path |-> path, via |-> raw]

\* an operation that made one backend call returns or raises
Return(c, op, k, kind, val, path) ==
    /\ pc' = [pc EXCEPT ![c] = "idle"]
    /\ ret' = [c |-> c, op |-> op, key |-> k, kind |-> kind, val |-> val,
               path |-> path, via |-> raw]

\* mutant of Leave: the registry keeps the mutex of a call that has ended
LeaveHeld(c, kind, val, path) ==
    /\ Return(c, "get_or_create", key[c], kind, val, path)
    /\ lock_registry' = lock_registry
    /\ key' = [key EXCEPT ![c] = NoKey]
    /\ mutex' = [mutex EXCEPT ![c] = NoMutex]
    /\ value' = [value EXCEPT ![c] = None]
    /\ createdtime' = [createdtime EXCEPT ![c] = 0]
    /\ generated' = [generated EXCEPT ![c] = NotGenerated]

\* get_or_create returns or raises: "with Lock(...) as value: return value".
\* The Lock object goes away, and with it the call's reference to the mutex
Leave(c, kind, val, path) ==
    /\ Return(c, "get_or_create", key[c], kind, val, path)
    /\ lock_registry' = RegistryDrop(c)
    /\ key' = [key EXCEPT ![c] = NoKey]
    /\ mutex' = [mutex EXCEPT ![c] = NoMutex]
    /\ value' = [value EXCEPT ![c] = None]
    /\ createdtime' = [createdtime EXCEPT ![c] = 0]
    /\ generated' = [generated EXCEPT ![c] = NotGenerated]

\* ------------------------------------------------------- get_or_create
\* CacheRegion.get_or_create up to the construction of the Lock: the key is
\* mangled and the key's mutex is taken from the registry
get_or_create(c, k) ==
    /\ pc[c] = "idle"
    /\ ops < MaxOps
    /\ LET mk == Mangle(key_mangler, k)
           m == RegionMutex(mk)
       IN  IF registry = NoObject
           THEN \* self._mutex(key) reads self._lock_registry
                /\ Return(c, "get_or_create", mk, "error", AttributeError,
                          "mutex")
                /\ UNCHANGED <<key, mutex, lock_registry, locked, pristine>>
           ELSE /\ key' = [key EXCEPT ![c] = mk]
                /\ mutex' = [mutex EXCEPT ![c] = m]
                /\ lock_registry' = [lock_registry EXCEPT ![mk] = m]
                /\ locked' = IF lock_registry[mk] = NoMutex
                             THEN [locked EXCEPT ![m] = NoCaller]
                             ELSE locked
                /\ pristine' =
                       [pristine EXCEPT ![mk] = @ /\ store[mk].val = Absent]
                /\ pc' = [pc EXCEPT ![c] = "read1"]
                /\ ret' = NoRet
    /\ ops' = ops + 1
    /\ UNCHANGED <<config, store, value, createdtime, generated,
                   creatorCalls, last>>

\* get_value of get_or_create: the presence test on what the backend gave
NeedRegeneration(v) == v = None

\* mutant of AfterFirstRead: a value that was read counts as due for
\* regeneration, so the call goes on to the mutex with the value in hand
AfterFirstReadStale(c, v, ct) ==
    /\ pc' = [pc EXCEPT ![c] = "acquire"]
    /\ value' = [value EXCEPT ![c] = v]
    /\ createdtime' = [createdtime EXCEPT ![c] = ct]
    /\ ret' = NoRet
    /\ UNCHANGED <<lock_registry, locked, key, mutex, generated>>

\* Lock._enter after its first value_fn(): _enter_create(createdtime) comes
\* back at once when a value was read, and _enter returns that value
AfterFirstRead(c, v, ct) ==
    IF ~no_value(ct)
    THEN /\ Leave(c, "value", v, "fast")
         /\ UNCHANGED locked
    ELSE /\ pc' = [pc EXCEPT ![c] = "acquire"]
         /\ value' = [value EXCEPT ![c] = v]
         /\ createdtime' = [createdtime EXCEPT ![c] = ct]
         /\ ret' = NoRet
         /\ UNCHANGED <<lock_registry, locked, key, mutex, generated>>

\* mutant of AfterSecondRead: a None that is stored under the key counts as
\* a value, only a missing key sends the caller to its creator
AfterSecondReadStored(c, v) ==
    /\ IF NeedRegeneration(v) /\ store[key[c]].val = Absent
       THEN /\ pc' = [pc EXCEPT ![c] = "creator"]
            /\ UNCHANGED generated
       ELSE /\ pc' = [pc EXCEPT ![c] = "release"]
            /\ generated' = [generated EXCEPT ![c] =
                   [exc |-> NoException, val |-> v, path |-> "double-check"]]
    /\ ret' = NoRet
    /\ UNCHANGED <<lock_registry, locked, key, mutex, value, createdtime>>

\* Lock._enter_create after the read under the mutex: a value that is there
\* is returned through the finally, otherwise the creator is next
AfterSecondRead(c, v) ==
    /\ IF NeedRegeneration(v)
       THEN /\ pc' = [pc EXCEPT ![c] = "creator"]
            /\ UNCHANGED generated
       ELSE /\ pc' = [pc EXCEPT ![c] = "release"]
            /\ generated' = [generated EXCEPT ![c] =
                   [exc |-> NoException, val |-> v, path |-> "double-check"]]
    /\ ret' = NoRet
    /\ UNCHANGED <<lock_registry, locked, key, mutex, value, createdtime>>

\* Lock._enter lines 79-85: the read after _enter_create came back with
\* NOT_REGENERATED and the first read had found nothing
AfterThirdRead(c, v) ==
    /\ IF NeedRegeneration(v)
       THEN Leave(c, "error", <<"Exception">>, "reread")
       ELSE Leave(c, "value", v, "reread")
    /\ UNCHANGED locked

\* one call of get_value (value_fn / value_and_created_fn of the Lock):
\* backend.get(key), which may fail, and the presence test
get_value(c) ==
    /\ pc[c] \in {"read1", "read2", "read3"}
    /\ \E ok \in BOOLEAN :
         LET v == ProxyGet(backend, key[c]) IN
         IF ok
         THEN /\ CASE pc[c] = "read1" ->
                        IF NeedRegeneration(v)
                        THEN AfterFirstRead(c, NOT_REGENERATED, -1)
                        ELSE AfterFirstRead(c, v, 1)
                   [] pc[c] = "read2" -> AfterSecondRead(c, v)
                   [] OTHER -> AfterThirdRead(c, v)
              /\ UNCHANGED pristine
         ELSE /\ pristine' = [pristine EXCEPT ![key[c]] = FALSE]
              /\ IF pc[c] = "read2"
                 THEN /\ pc' = [pc EXCEPT ![c] = "release"]
                      /\ generated' = [generated EXCEPT ![c] =
                             [exc |-> BackendError, val |-> NOT_REGENERATED,
                              path |-> "double-check"]]
                      /\ ret' = NoRet
                      /\ UNCHANGED <<lock_registry, locked, key, mutex, value,
                                     createdtime>>
                 ELSE /\ Leave(c, "error", BackendError, pc[c])
                      /\ UNCHANGED locked
    /\ UNCHANGED <<config, store, ops, creatorCalls, last>>

\* mutant of LockAcquire: the lock is taken without looking at its holder
LockAcquireBarging(c, wait) ==
    /\ locked' = [locked EXCEPT ![mutex[c]] = c]
    /\ pc' = [pc EXCEPT ![c] = "read2"]
    /\ ret' = NoRet
    /\ UNCHANGED <<lock_registry, locals>>

\* _LockWrapper.acquire(wait): a free lock is taken; a held one makes a
\* blocking caller wait and a non-blocking one come back with False
LockAcquire(c, wait) ==
    IF locked[mutex[c]] = NoCaller
    THEN /\ locked' = [locked EXCEPT ![mutex[c]] = c]
         /\ pc' = [pc EXCEPT ![c] = "read2"]
         /\ ret' = NoRet
         /\ UNCHANGED <<lock_registry, locals>>
    ELSE /\ ~wait
         /\ IF value[c] = NOT_REGENERATED
            THEN /\ pc' = [pc EXCEPT ![c] = "read3"]
                 /\ ret' = NoRet
                 /\ UNCHANGED <<lock_registry, locked, locals>>
            ELSE /\ Leave(c, "value", value[c], "stale")
                 /\ UNCHANGED locked

\* Lock._enter_create lines 93-99: non-blocking with a value in hand,
\* blocking without one
acquire(c) ==
    /\ pc[c] = "acquire"
    /\ IF has_value(createdtime[c])
       THEN LockAcquire(c, FALSE)
       ELSE LockAcquire(c, TRUE)
    /\ UNCHANGED <<config, store, ops, creatorCalls, last, pristine>>

\* creator_func(creator) returned v: gen_value goes on to its backend.set
CreatorReturned(c, v) ==
    /\ pc' = [pc EXCEPT ![c] = "write"]
    /\ generated' = [generated EXCEPT ![c] =
           [exc |-> NoException, val |-> v, path |-> "created"]]
    /\ UNCHANGED <<store, last, pristine>>

\* mutant of CreatorRaised: the failure is cached, None is written for the key
CreatorRaisedCached(c) ==
    /\ pc' = [pc EXCEPT ![c] = "release"]
    /\ generated' = [generated EXCEPT ![c] =
           [exc |-> CreatorError(c), val |-> NOT_REGENERATED,
            path |-> "created"]]
    /\ pristine' = [pristine EXCEPT ![key[c]] = FALSE]
    /\ store' = RedisSet(key[c], ProxySet(backend, None), None)
    /\ last' = [last EXCEPT ![key[c]] =
           [op |-> "create", val |-> None, exp |-> None, via |-> raw]]

\* creator_func(creator) raised: the exception leaves gen_value before its
\* backend.set and reaches the finally of _enter_create
CreatorRaised(c) ==
    /\ pc' = [pc EXCEPT ![c] = "release"]
    /\ generated' = [generated EXCEPT ![c] =
           [exc |-> CreatorError(c), val |-> NOT_REGENERATED,
            path |-> "created"]]
    /\ pristine' = [pristine EXCEPT ![key[c]] = FALSE]
    /\ UNCHANGED <<store, last>>

\* the signal of get_value that nothing is cached for the key
NeedRegenerationException == <<"NeedRegenerationException">>

\* creator_func(creator) raised NeedRegenerationException itself: line 114
\* is outside the try of lines 105-111, so the signal reaches the finally of
\* _enter_create like every other exception of the creator
CreatorSignalled(c) ==
    /\ pc' = [pc EXCEPT ![c] = "release"]
    /\ generated' = [generated EXCEPT ![c] =
           [exc |-> NeedRegenerationException, val |-> NOT_REGENERATED,
            path |-> "created"]]
    /\ pristine' = [pristine EXCEPT ![key[c]] = FALSE]
    /\ UNCHANGED <<store, last>>

\* Lock._enter_create line 114, self.creator(): gen_value calls
\* creator_func(creator), which returns a value or raises; a creator that
\* signals NeedRegenerationException is one whose outcomes hold that signal
creator_func(c, created) ==
    /\ pc[c] = "creator"
    /\ creatorCalls' = [creatorCalls EXCEPT ![key[c]] = @ + 1]
    /\ \/ \E v \in created \ {NeedRegenerationException} :
             CreatorReturned(c, v)
       \/ CreatorRaised(c)
       \/ NeedRegenerationException \in created /\ CreatorSignalled(c)
    /\ ret' = NoRet
    /\ UNCHANGED <<config, lock_registry, locked, key, mutex, value,
                   createdtime, ops>>

\* gen_value: self.backend.set(key, created_value, expiration), with the
\* expiration argument of get_or_create
gen_value(c, expiration) ==
    /\ pc[c] = "write"
    /\ pc' = [pc EXCEPT ![c] = "release"]
    /\ \E ok \in BOOLEAN :
         IF ok
         THEN /\ store' = RedisSet(key[c], ProxySet(backend, generated[c].val),
                                   expiration)
              /\ last' = [last EXCEPT ![key[c]] =
                     [op |-> "create", val |-> generated[c].val,
                      exp |-> expiration, via |-> raw]]
              /\ UNCHANGED <<generated, pristine>>
         ELSE /\ generated' = [generated EXCEPT ![c] =
                     [exc |-> BackendError, val |-> NOT_REGENERATED,
                      path |-> "created"]]
              /\ pristine' = [pristine EXCEPT ![key[c]] = FALSE]
              /\ UNCHANGED <<store, last>>
    /\ ret' = NoRet
    /\ UNCHANGED <<config, lock_registry, locked, key, mutex, value,
                   createdtime, ops, creatorCalls>>

\* mutant of LockRelease: the lock stays held
LockReleaseNothing(c) == locked

\* mutant of LockRelease: the lock is released on the return path only, as
\* without the finally
LockReleaseOnReturn(c) ==
    IF generated[c].exc # NoException
    THEN locked
    ELSE [locked EXCEPT ![mutex[c]] = NoCaller]

\* mutant of LockRelease: the release frees every mutex, also those other
\* callers hold
LockReleaseAll(c) == [m \in MutexIds |-> NoCaller]

\* _LockWrapper.release
LockRelease(c) == [locked EXCEPT ![mutex[c]] = NoCaller]

\* the finally of Lock._enter_create, then the return or the exception
\* leaves _enter_create, _enter and get_or_create
release(c) ==
    /\ pc[c] = "release"
    /\ locked' = LockRelease(c)
    /\ IF generated[c].exc # NoException
       THEN Leave(c, "error", generated[c].exc, generated[c].path)
       ELSE Leave(c, "value", generated[c].val, generated[c].path)
    /\ UNCHANGED <<config, store, ops, creatorCalls, last, pristine>>

\* ------------------------------------------------- get, set and delete
\* CacheRegion.get
get(c, k) ==
    /\ pc[c] = "idle"
    /\ ops < MaxOps
    /\ ops' = ops + 1
    /\ LET mk == Mangle(key_mangler, k) IN
       IF raw = NoObject
       THEN Return(c, "get", mk, "error", RegionNotConfigured, "get")
       ELSE \E ok \in BOOLEAN :
              IF ok
              THEN Return(c, "get", mk, "value", ProxyGet(backend, mk), "get")
              ELSE Return(c, "get", mk, "error", BackendError, "get")
    /\ UNCHANGED <<config, store, lock_registry, locked, locals,
                   creatorCalls, last, pristine>>

\* CacheRegion.set line 444: the expiration the backend is given
ResolveExpiration(expiration) ==
    IF Truthy(expiration) THEN expiration ELSE expiration_time

\* CacheRegion.set
set(c, k, v, expiration) ==
    /\ pc[c] = "idle"
    /\ ops < MaxOps
    /\ ops' = ops + 1
    /\ LET mk == Mangle(key_mangler, k) IN
       IF ~Truthy(expiration) /\ expiration_time = Unset
       THEN \* line 444 reads self.expiration_time
            /\ Return(c, "set", mk, "error", AttributeError, "set")
            /\ UNCHANGED <<store, last, pristine>>
       ELSE IF raw = NoObject
       THEN /\ Return(c, "set", mk, "error", RegionNotConfigured, "set")
            /\ UNCHANGED <<store, last, pristine>>
       ELSE \E ok \in BOOLEAN :
              IF ok
              THEN /\ store' = RedisSet(mk, ProxySet(backend, v),
                                        ResolveExpiration(expiration))
                   /\ last' = [last EXCEPT ![mk] =
                          [op |-> "set", val |-> v, exp |-> expiration,
                           via |-> raw]]
                   /\ pristine' = [pristine EXCEPT ![mk] = FALSE]
                   /\ Return(c, "set", mk, "value", None, "set")
              ELSE /\ Return(c, "set", mk, "error", BackendError, "set")
                   /\ UNCHANGED <<store, last, pristine>>
    /\ UNCHANGED <<config, lock_registry, locked, locals, creatorCalls>>

\* CacheRegion.delete
delete(c, k) ==
    /\ pc[c] = "idle"
    /\ ops < MaxOps
    /\ ops' = ops + 1
    /\ LET mk == Mangle(key_mangler, k) IN
       IF raw = NoObject
       THEN /\ Return(c, "delete", mk, "error", RegionNotConfigured, "delete")
            /\ UNCHANGED <<store, last, pristine>>
       ELSE \E ok \in BOOLEAN :
              IF ok
              THEN /\ store' = RedisDelete(mk)
                   /\ last' = [last EXCEPT ![mk] =
                          [op |-> "delete", val |-> None, exp |-> None,
                           via |-> raw]]
                   /\ pristine' = [pristine EXCEPT ![mk] = FALSE]
                   /\ Return(c, "delete", mk, "value", None, "delete")
              ELSE /\ Return(c, "delete", mk, "error", BackendError,
                             "delete")
                   /\ UNCHANGED <<store, last, pristine>>
    /\ UNCHANGED <<config, lock_registry, locked, locals, creatorCalls>>

\* the patterns of keys(): everything, or one key
Patterns == {<<"*">>} \cup Keys
Matches(pattern, k) == pattern = <<"*">> \/ pattern = k

\* the backend keys in the order the server lists them
KeyOrder ==
    CHOOSE s \in [1..Cardinality(BackendKeys) -> BackendKeys] :
        {s[i] : i \in DOMAIN s} = BackendKeys

\* RedisBackend.keys: client.keys(pattern), here as one list of the fields
\* of the keys that are present and match
RECURSIVE RedisKeys(_, _)
RedisKeys(pattern, i) ==
    IF i > Len(KeyOrder) THEN <<>>
    ELSE (IF store[KeyOrder[i]].val # Absent /\ Matches(pattern, KeyOrder[i])
          THEN KeyOrder[i] ELSE <<>>) \o RedisKeys(pattern, i + 1)

\* CacheRegion.keys: the pattern goes to the backend as it is, and every
\* proxy hands the question and the answer through
keys(c, pattern) ==
    /\ pc[c] = "idle"
    /\ ops < MaxOps
    /\ ops' = ops + 1
    /\ IF raw = NoObject
       THEN Return(c, "keys", pattern, "error", RegionNotConfigured, "keys")
       ELSE \E ok \in BOOLEAN :
              IF ok
              THEN Return(c, "keys", pattern, "value",
                          <<"keys">> \o RedisKeys(pattern, 1), "keys")
              ELSE Return(c, "keys", pattern, "error", BackendError, "keys")
    /\ UNCHANGED <<config, store, lock_registry, locked, locals,
                   creatorCalls, last, pristine>>

\* ------------------------------------------------------- specifications
\* the steps inside get_or_create, with the values a creator may return and
\* the expiration arguments
Step(c, created, expirations) ==
    \/ get_value(c)
    \/ acquire(c)
    \/ creator_func(c, created)
    \/ \E e \in expirations : gen_value(c, e)
    \/ release(c)

\* the calls a caller may make, with the values and expirations it may pass
Call(c, values, expirations) ==
    \/ \E k \in Keys : get_or_create(c, k)
    \/ \E k \in Keys : get(c, k)
    \/ \E k \in Keys, v \in values, e \in expirations : set(c, k, v, e)
    \/ \E k \in Keys : delete(c, k)

\* callers are interchangeable threads: a new call is made by the first
\* caller that is not inside one
FirstIdle(c) == pc[c] = "idle" /\ \A d \in Callers : pc[d] = "idle" => c <= d

\* callers run concurrently
Next ==
    \E c \in Callers :
        \/ FirstIdle(c) /\ Call(c, ConcurrentValues, {None})
        \/ Step(c, ConcurrentValues, {None})

Spec == Init /\ [][Next]_vars

\* callers contend for one key: get_or_create, and set and delete that put a
\* value under the waiting callers and take it away
HotKeys == {generate_key("id", "session")}

CallHot(c) ==
    \/ \E k \in HotKeys : get_or_create(c, k)
    \/ \E k \in HotKeys : set(c, k, Obj, None)
    \/ \E k \in HotKeys : delete(c, k)

NextHot ==
    \E c \in Callers :
        \/ FirstIdle(c) /\ CallHot(c)
        \/ Step(c, ConcurrentValues, {None})

\* every caller that is inside get_or_create keeps running: the threads are
\* scheduled, creators and backend calls end
FairSpec ==
    /\ Init
    /\ [][NextHot]_vars
    /\ \A c \in Callers : WF_vars(Step(c, ConcurrentValues, {None}))

\* callers contend for one key with every operation of the region
CallAll(c) ==
    \/ \E k \in HotKeys : get_or_create(c, k)
    \/ \E k \in HotKeys : get(c, k)
    \/ \E k \in HotKeys : set(c, k, Obj, None)
    \/ \E k \in HotKeys : delete(c, k)
    \/ \E p \in Patterns : keys(c, p)

NextAll ==
    \E c \in Callers :
        \/ FirstIdle(c) /\ CallAll(c)
        \/ Step(c, {Obj}, {None})

AllSpec == Init /\ [][NextAll]_vars

\* callers contend for one key with creators that may signal
\* NeedRegenerationException themselves
SignallingCreators == {Obj, NeedRegenerationException}

NextSignal ==
    \E c \in Callers :
        \/ FirstIdle(c) /\ \E k \in HotKeys : get_or_create(c, k)
        \/ Step(c, SignallingCreators, {None})

SignalSpec == Init /\ [][NextSignal]_vars

\* the creator of the first caller has just raised inside the mutex of a
\* key that nothing is cached under, and every other caller has begun a
\* get_or_create of that key, found nothing and waits for the mutex
InitRaised ==
    /\ \E cfg \in Configs :
          /\ backend = cfg.chain
          /\ expiration_time = cfg.expiration_time
          /\ key_mangler = cfg.key_mangler
    /\ raw = FirstObject
    /\ registry = FirstObject
    /\ last_configure = NoConfigure
    /\ \E k \in HotKeys :
          LET mk == Mangle(key_mangler, k) IN
          /\ key = [c \in Callers |-> mk]
          /\ lock_registry =
                [j \in BackendKeys |-> IF j = mk THEN 1 ELSE NoMutex]
          /\ creatorCalls = [j \in BackendKeys |-> IF j = mk THEN 1 ELSE 0]
          /\ pristine = [j \in BackendKeys |-> j # mk]
    /\ store = [k \in BackendKeys |-> NoEntry]
    /\ last = [k \in BackendKeys |-> NoWrite]
    /\ mutex = [c \in Callers |-> 1]
    /\ locked = [m \in MutexIds |-> IF m = 1 THEN 1 ELSE NoCaller]
    /\ pc = [c \in Callers |-> IF c = 1 THEN "release" ELSE "acquire"]
    /\ value = [c \in Callers |-> NOT_REGENERATED]
    /\ createdtime = [c \in Callers |-> -1]
    /\ generated = [c \in Callers |->
          IF c = 1
          THEN [exc |-> CreatorError(1), val |-> NOT_REGENERATED,
                path |-> "created"]
          ELSE NotGenerated]
    /\ ops = NumCallers
    /\ ret = NoRet

\* the callers go on from there
NextRaised == \E c \in Callers : Step(c, ConcurrentValues, {None})

RaisedSpec == InitRaised /\ [][NextRaised]_vars

\* one caller alone: no concurrent access
NextSeq == Call(1, Values, Expirations) \/ Step(1, CreatorValues, Expirations)

SeqSpec == Init /\ [][NextSeq]_vars

\* ------------------------------------------------------------ configure
\* the backend names the plugin loader knows, and one it does not
BackendNames == {"yosai_dpcache.cache.redis"}
\* the proxy classes (subclasses of ProxyBackend), and a class that is none
ProxyClasses == {"msgpack", "zlib", "sm"}
NotAProxy == "dict"

\* configure, lines 263-270: what self.expiration_time becomes, or
\* ValidationError
IsNumber(e) == e \in {Zero, <<"30">>, <<"60">>}
IsTimedelta(e) == Head(e) = "timedelta"
ValidExpiration(e) == ~Truthy(e) \/ IsNumber(e) \/ IsTimedelta(e)
\* int(compat.timedelta_total_seconds(td)): the microseconds are cut off
WholeSeconds(td) == <<td[2]>>
ConvertExpiration(e) ==
    IF ~Truthy(e) \/ IsNumber(e) THEN e ELSE WholeSeconds(e)

\* ProxyBackend.wrap: the proxy takes the backend as its proxied and is
\* the backend from now on
ProxyWrap(proxy, chain) == <<proxy>> \o chain

\* mutant of RegionWrap: the class of the proxy is not looked at
RegionWrapUnchecked(proxy, chain) ==
    [chain |-> ProxyWrap(proxy, chain), exc |-> NoException]

\* CacheRegion.wrap on a region that has a backend: a class that is no
\* ProxyBackend raises TypeError before anything is touched, a proxy is
\* instantiated and becomes self.backend, wrapped around the old one
RegionWrap(proxy, chain) ==
    IF proxy \notin ProxyClasses
    THEN [chain |-> chain, exc |-> TypeError]
    ELSE [chain |-> ProxyWrap(proxy, chain), exc |-> NoException]

\* mutant of WrapOrder: the list is applied front to back
WrapOrderForward(wrap, i) == wrap[i]

\* the order in which configure hands its wrap list to CacheRegion.wrap:
\* reversed(wrap), the i-th call gets this element
WrapOrder(wrap, i) == wrap[Len(wrap) + 1 - i]

\* configure, lines 276-278, with CacheRegion.wrap: the wrappers are put
\* around the backend one by one; one that is no ProxyBackend raises
\* TypeError and leaves those before it in place
RECURSIVE WrapAll(_, _, _)
WrapAll(wrap, i, chain) ==
    IF i > Len(wrap) THEN [chain |-> chain, exc |-> NoException]
    ELSE LET r == RegionWrap(WrapOrder(wrap, i), chain)
         IN  IF r.exc # NoException THEN r
             ELSE WrapAll(wrap, i + 1, r.chain)

\* mutant of Configured: configure went through once, and that is for good
ConfiguredForGood(a) == raw # NoObject

\* configure, line 247: the region has a backend and the caller did not
\* ask to replace it
Configured(a) == raw # NoObject /\ ~a.replace_existing_backend

\* CacheRegion.configure, statement by statement: the attributes of the
\* region when configure returns or raises, id being the number of the call
ConfigureResult(a, id) ==
    LET same == [backend |-> backend, raw |-> raw, registry |-> registry,
                 expiration_time |-> expiration_time]
    IN  IF Configured(a)
        THEN same @@ [exc |-> RegionAlreadyConfigured]
        ELSE IF a.backend \notin BackendNames
        THEN same @@ [exc |-> PluginNotFound]
        ELSE IF ~ValidExpiration(a.expiration_time)
        THEN [backend |-> <<>>, raw |-> id, registry |-> registry,
              expiration_time |-> expiration_time, exc |-> ValidationError]
        ELSE LET w == WrapAll(a.wrap, 1, <<>>)
             IN  [backend |-> w.chain, raw |-> id, registry |-> id,
                  expiration_time |-> ConvertExpiration(a.expiration_time),
                  exc |-> w.exc]

configure(c, a) ==
    /\ pc[c] = "idle"
    /\ ops < MaxOps
    /\ ops' = ops + 1
    /\ LET r == ConfigureResult(a, ops + 1) IN
        /\ backend' = r.backend
        /\ raw' = r.raw
        /\ registry' = r.registry
        /\ expiration_time' = r.expiration_time
        /\ lock_registry' = IF r.registry = registry
                            THEN lock_registry
                            ELSE [k \in BackendKeys |-> NoMutex]
        /\ last_configure' =
               a @@ [was_configured |-> raw # NoObject, outcome |-> r.exc,
                     made |-> IF r.exc = NoException THEN r.raw ELSE NoObject]
        /\ IF r.exc = NoException
           THEN Return(c, "configure", NoKey, "value", None, "configure")
           ELSE Return(c, "configure", NoKey, "error", r.exc, "configure")
    /\ UNCHANGED <<key_mangler, store, locked, locals, creatorCalls, last,
                   pristine>>

\* CacheRegion.wrap called by a user of the region; the type test comes
\* first, self.backend is read after it
wrap(c, proxy) ==
    /\ pc[c] = "idle"
    /\ ops < MaxOps
    /\ ops' = ops + 1
    /\ LET r == RegionWrap(proxy, backend) IN
       IF r.exc # NoException
       THEN /\ Return(c, "wrap", <<proxy>>, "error", r.exc, "wrap")
            /\ UNCHANGED backend
       ELSE IF raw = NoObject
       THEN /\ Return(c, "wrap", <<proxy>>, "error", RegionNotConfigured,
                      "wrap")
            /\ UNCHANGED backend
       ELSE /\ Return(c, "wrap", <<proxy>>, "value", None, "wrap")
            /\ backend' = r.chain
    /\ UNCHANGED <<raw, registry, expiration_time, key_mangler,
                   last_configure, store, lock_registry, locked, locals,
                   creatorCalls, last, pristine>>

\* the configure calls in play: some that are in order, with different
\* wrap lists and expiration times (numbers, durations, None, and falsy
\* values that are neither), and one for each way to fail
ConfigureCalls ==
    LET redis == "yosai_dpcache.cache.redis"
        call(b, e, w) == [backend |-> b, expiration_time |-> e, wrap |-> w]
    IN  { call(redis, <<"60">>, <<"msgpack", "zlib">>),
          call(redis, Timedelta("30", "500000"), <<"zlib">>),
          call(redis, None, <<>>),
          call(redis, Zero, <<"zlib">>),
          call(redis, EmptyString, <<>>),
          call(redis, ZeroTimedelta, <<>>),
          call("nosuch", <<"60">>, <<"msgpack">>),
          call(redis, <<"soon">>, <<"msgpack">>),
          call(redis, <<"60">>, <<"msgpack", NotAProxy>>),
          call(redis, <<"30">>, <<NotAProxy, "zlib">>) }

ConfigureArgs ==
    {call @@ [replace_existing_backend |-> r] :
        call \in ConfigureCalls, r \in BOOLEAN}

\* a region as make_region leaves it, with or without a key mangler of the
\* user
InitUnconfigured ==
    /\ backend = <<>>
    /\ raw = NoObject
    /\ registry = NoObject
    /\ expiration_time = Unset
    /\ key_mangler \in {None, <<"sha1">>}
    /\ InitIdle

\* the calls one caller makes on a region in between its configure calls
ConfigCall(c) ==
    \/ \E k \in HotKeys : get_or_create(c, k)
    \/ \E k \in HotKeys : get(c, k)
    \/ \E k \in HotKeys, e \in {None, <<"30">>} : set(c, k, Obj, e)
    \/ \E k \in HotKeys : delete(c, k)
    \/ keys(c, <<"*">>)

NextConfig ==
    \/ \E a \in ConfigureArgs : configure(1, a)
    \/ ConfigCall(1)
    \/ Step(1, {Obj}, {None})

ConfigSpec == InitUnconfigured /\ [][NextConfig]_vars

\* one caller wraps the backend of a region, configured or not, and writes
\* and reads through what it has wrapped
WrapArgs == ProxyClasses \cup {NotAProxy}

NextWrap ==
    \/ \E p \in WrapArgs : wrap(1, p)
    \/ \E k \in HotKeys : set(1, k, Obj, <<"30">>)
    \/ \E k \in HotKeys : get(1, k)

InitWrap == Init \/ InitUnconfigured

WrapSpec == InitWrap /\ [][NextWrap]_vars

\* ---------------------------------------------------- the cache handler
\* the domain of a generated key: its last field
DomainOf(k) == k[Len(k)]

\* (the identifiers in play are never None: a call with identifier None
\* returns at once and reaches nothing)
\* DPCacheHandler.get_or_create: the region's get_or_create with the key
\* generated for the domain (the ttl of the domain goes with it as the
\* expiration argument, see HandlerStep)
HandlerGetOrCreate(c, domain, identifier) ==
    get_or_create(c, generate_key(identifier, domain))

\* DPCacheHandler.set: a None value is not cached
HandlerSet(c, domain, identifier, v) ==
    /\ v # None
    /\ set(c, generate_key(identifier, domain), v, get_ttl(domain))

\* DPCacheHandler.get
HandlerGet(c, domain, identifier) ==
    get(c, generate_key(identifier, domain))

\* DPCacheHandler.delete
HandlerDelete(c, domain, identifier) ==
    delete(c, generate_key(identifier, domain))

\* the steps inside the region's get_or_create when the handler called it:
\* expiration is get_ttl(domain)
HandlerStep(c) ==
    \/ get_value(c)
    \/ acquire(c)
    \/ creator_func(c, CreatorValues)
    \/ gen_value(c, get_ttl(DomainOf(key[c])))
    \/ release(c)

HandlerCall(c) ==
    \E d \in Domains, i \in Identifiers :
        \/ HandlerGetOrCreate(c, d, i)
        \/ \E v \in Values : HandlerSet(c, d, i, v)
        \/ HandlerGet(c, d, i)
        \/ HandlerDelete(c, d, i)

\* a handler whose absolute_ttl is set, and one caller
HandlerInit == InitConfigured(HandlerConfig)

NextHandler == HandlerCall(1) \/ HandlerStep(1)

HandlerSpec == HandlerInit /\ [][NextHandler]_vars

\* ================================================================ claims
\* a caller is inside its creator: from the start of creator_func to the
\* completion of the backend write of the created value
InCreator(c) == pc[c] \in {"creator", "write"}

\* a caller waits for a mutex that another caller holds
Blocked(c) ==
    /\ pc[c] = "acquire"
    /\ locked[mutex[c]] \notin {NoCaller, c}

\* the step is one of caller c
StepOf(c) == pc'[c] # pc[c]

\* what get gives for a key the backend does not hold, through the chain
RECURSIVE Miss(_)
Miss(chain) ==
    IF chain = <<>> THEN None ELSE deserialize(Head(chain), Miss(Tail(chain)))

\* C1: N concurrent get_or_create calls on one key, begun on an empty cache
\* with nothing else touching the key and nothing failing, invoke the
\* creator exactly once, and each call returns what that invocation produced
C1_CreatorOnceForAll ==
    \A k \in BackendKeys :
        pristine[k] =>
            /\ creatorCalls[k] <= 1
            /\ (ret.op = "get_or_create" /\ ret.key = k /\ ret.kind = "value")
                   => /\ creatorCalls[k] = 1
                      /\ last[k].op = "create"
                      /\ ret.val = last[k].val

\* C2: for each key at most one caller is inside its creator, and every
\* other caller of get_or_create for that key is before its first read or
\* waits for the key's mutex, which the creating caller holds
C2_OneCreatorPerKey ==
    \A c \in Callers :
        InCreator(c) =>
            /\ locked[mutex[c]] = c
            /\ \A d \in Callers \ {c} :
                   (pc[d] # "idle" /\ key[d] = key[c]) =>
                       /\ ~InCreator(d)
                       /\ mutex[d] = mutex[c]
                       /\ pc[d] \in {"read1", "acquire"}

\* C2 witness: one caller creates while another waits for the same key
C2_Witness ==
    \E c \in Callers, d \in Callers :
        /\ c # d
        /\ InCreator(c)
        /\ Blocked(d)
        /\ key[c] = key[d]

C4_MutexReleased ==
    \A m \in MutexIds :
        locked[m] # NoCaller =>
            /\ pc[locked[m]] \in {"read2", "creator", "write", "release"}
            /\ mutex[locked[m]] = m

\* C4 witness: a creator's exception has just left get_or_create while
\* another caller waits for the same key, and the mutex is free for it
C4_Witness ==
    /\ ret.op = "get_or_create"
    /\ ret.kind = "error"
    /\ ret.val = CreatorError(ret.c)
    /\ \E d \in Callers :
           /\ pc[d] = "acquire"
           /\ key[d] = ret.key
           /\ locked[mutex[d]] = NoCaller

IsCreatorError(e) == Len(e) = 2 /\ e[1] = "CreatorError"

\* C5: an exception of the creator reaches the caller whose creator raised
\* it and no other caller, and from the raise to the end of that call the
\* call writes nothing to the backend
C5_CreatorErrorNotCached ==
    /\ [](IsCreatorError(ret.val) =>
            /\ ret.kind = "error"
            /\ ret.op = "get_or_create"
            /\ ret.val = CreatorError(ret.c))
    /\ [][\A c \in Callers :
            (/\ StepOf(c)
             /\ \/ generated[c].exc = CreatorError(c)
                \/ generated'[c].exc = CreatorError(c))
            => /\ store' = store
               /\ pc'[c] \in {"release", "idle"}
               /\ pc'[c] = "idle" =>
                      /\ ret'.c = c
                      /\ ret'.kind = "error"
                      /\ ret'.val = CreatorError(c)]_vars

\* C5 witness: a call has just ended by its creator's exception, and the
\* key is still not in the backend
C5_Witness ==
    /\ ret.kind = "error"
    /\ ret.val = CreatorError(ret.c)
    /\ store[ret.key].val = Absent
    /\ creatorCalls[ret.key] = 1

\* C6: a get_or_create call whose first read finds a value returns that
\* value in that step: no mutex changes hands, no creator runs and nothing
\* is written, whoever holds the key's mutex
C6_FastPath ==
    [][\A c \in Callers :
          (/\ pc[c] = "read1"
           /\ StepOf(c)
           /\ ProxyGet(backend, key[c]) # None
           /\ ret'.val # BackendError)
          => /\ pc'[c] = "idle"
             /\ ret'.c = c
             /\ ret'.kind = "value"
             /\ ret'.val = ProxyGet(backend, key[c])
             /\ locked' = locked
             /\ store' = store
             /\ creatorCalls' = creatorCalls]_vars

\* C6 witness: a call has just returned on the fast path while another
\* caller holds the key's mutex
C6_Witness ==
    /\ ret.op = "get_or_create"
    /\ ret.path = "fast"
    /\ lock_registry[ret.key] # NoMutex
    /\ locked[lock_registry[ret.key]] \notin {NoCaller, ret.c}

\* the step is a get, set or delete that returned
Returned(op) == ret'.op = op /\ ret'.kind = "value"

\* C7: with one caller, a get_or_create that finds nothing calls the creator
\* once and returns its result; a get that follows returns the created
\* value; a get_or_create that follows does not call the creator again
C7_CreateOnceThenCached ==
    /\ []((ret.op = "get_or_create" /\ ret.kind = "value" /\ ret.path # "fast")
            => /\ ret.path = "created"
               /\ last[ret.key].op = "create"
               /\ last[ret.key].val = ret.val)
    /\ [][/\ (Returned("get") /\ last[ret'.key].op = "create")
                => ret'.val = last[ret'.key].val
          /\ \A k \in BackendKeys :
                creatorCalls'[k] # creatorCalls[k] => last[k].op # "create"]_vars

\* C8: get on a key with nothing cached returns NO_VALUE; get on a key that
\* holds a stored None returns something else than get on a missing key; and
\* the first read of get_or_create takes a key that holds a stored None as
\* present
C8_MissingIsNoValue ==
    [][/\ (Returned("get") /\ store[ret'.key].val = Absent)
             => ret'.val = NO_VALUE
       /\ (Returned("get") /\ last[ret'.key].val = None
             /\ last[ret'.key].op \in {"set", "create"})
             => ret'.val # Miss(backend)
       /\ \A c \in Callers :
             (pc[c] = "read1" /\ store[key[c]].val # Absent)
                 => pc'[c] \notin {"acquire", "read2", "creator"}]_vars

\* C9: with one caller, a get that follows set(K, V, ttl) with no write or
\* delete of K in between returns V, and V is not what get gives for a key
\* with nothing cached
C9_SetGetRoundTrip ==
    [][(Returned("get") /\ last[ret'.key].op = "set")
          => /\ ret'.val = last[ret'.key].val
             /\ ret'.val # Miss(backend)]_vars

Precedence(expiration) ==
    IF expiration # None THEN expiration ELSE expiration_time

\* C11: the TTL that set hands to the backend is the explicit expiration
\* argument whenever one is given, 0 included, and otherwise the configured
\* expiration_time of the region
C11_SetPrecedence ==
    \A k \in BackendKeys :
        last[k].op = "set" => store[k].ttl = Precedence(last[k].exp)

\* C12: the TTL that get_or_create hands to the backend with the created
\* value is the explicit expiration argument if one is given and otherwise
\* the configured expiration_time, and it is the TTL that set hands to the
\* backend for the same argument
C12_CreatePrecedence ==
    \A k \in BackendKeys :
        last[k].op = "create" =>
            /\ store[k].ttl = Precedence(last[k].exp)
            /\ store[k].ttl = ResolveExpiration(last[k].exp)

\* C13: on a handler whose absolute_ttl is not None, every value that the
\* handler's set and get_or_create write to the backend carries a TTL that
\* is not None, whatever the domain
C13_TtlAlwaysSet ==
    /\ handler[<<"absolute", "_ttl">>] # None
    /\ \A k \in BackendKeys : store[k].val # Absent => store[k].ttl # None

\* the operations of a region other than configure
RegionOps == {"get", "set", "delete", "keys", "get_or_create"}

\* the last configure call went through
ConfigureDone == last_configure.outcome = NoException

\* C14: configure on a region that has a backend fails with
\* RegionAlreadyConfigured unless replace_existing_backend is given; with it
\* the call is not refused, and when it goes through the region has a new
\* backend object under the proxies of the new wrap list, and every later
\* get, set, delete, keys and get_or_create reaches that backend through
\* those proxies
C14_WriteOnce ==
    /\ ret.op = "configure" =>
          /\ (last_configure.was_configured
              /\ ~last_configure.replace_existing_backend)
                => (ret.kind = "error" /\ ret.val = RegionAlreadyConfigured)
          /\ (last_configure.was_configured
              /\ last_configure.replace_existing_backend)
                => /\ ret.val # RegionAlreadyConfigured
                   /\ ret.kind = "value" =>
                         /\ ConfigureDone
                         /\ raw = ops
                         /\ last_configure.made = raw
                         /\ backend = last_configure.wrap
    /\ (ConfigureDone /\ ret.op \in RegionOps /\ ret.kind = "value") =>
          /\ ret.via = last_configure.made
          /\ ret.op = "set" =>
                store[ret.key].val =
                    ProxySet(last_configure.wrap, last[ret.key].val)

\* C14 witness: a region was configured a second time with
\* replace_existing_backend, and a set has gone to the new backend
C14_Witness ==
    /\ ret.op = "set"
    /\ ret.kind = "value"
    /\ ConfigureDone
    /\ last_configure.was_configured
    /\ last_configure.replace_existing_backend

\* C15: a configure call that raises leaves the backend chain, the backend
\* object, expiration_time, key_mangler, the mutex registry and the
\* configured status of the region as they were
C15_FailedConfigureKeepsState ==
    [][(ret'.op = "configure" /\ ret'.kind = "error") =>
          /\ backend' = backend
          /\ raw' = raw
          /\ expiration_time' = expiration_time
          /\ key_mangler' = key_mangler
          /\ registry' = registry
          /\ lock_registry' = lock_registry]_vars

\* no configure call on the region has gone through: none was made, or the
\* last one failed on a region without a backend
NeverConfigured ==
    \/ last_configure = NoConfigure
    \/ /\ ~last_configure.was_configured
       /\ ~ConfigureDone

\* C16: on a region on which configure never went through, get, set, delete,
\* keys and get_or_create fail with RegionNotConfigured, reach neither the
\* backend nor the creator, and leave the region without a backend
C16_UnconfiguredFails ==
    /\ [](NeverConfigured /\ ret.op \in RegionOps =>
            /\ ret.kind = "error"
            /\ ret.val = RegionNotConfigured
            /\ ret.via = NoObject
            /\ raw = NoObject)
    /\ [][NeverConfigured /\ last_configure' = last_configure =>
            /\ store' = store
            /\ creatorCalls' = creatorCalls]_vars

\* what reaches the backend when a value enters the proxies P1, ..., Pn of a
\* wrap list in that order, from the i-th on
RECURSIVE EnterInOrder(_, _, _)
EnterInOrder(proxies, i, v) ==
    IF i > Len(proxies) THEN v
    ELSE EnterInOrder(proxies, i + 1, serialize(proxies[i], v))

\* C17: after configure with the wrap list [P1, ..., Pn] the backend of the
\* region is P1, whose proxied is P2, ..., and below Pn the raw backend; a
\* set enters them in that order and a get hands back what the last set or
\* creation stored through them
C17_ProxyOrder ==
    ConfigureDone =>
        /\ ret.op = "configure" => backend = last_configure.wrap
        /\ (ret.op = "set" /\ ret.kind = "value") =>
              store[ret.key].val =
                  EnterInOrder(last_configure.wrap, 1, last[ret.key].val)
        /\ (ret.op = "get" /\ ret.kind = "value"
            /\ last[ret.key].op \in {"set", "create"}
            /\ last[ret.key].via = last_configure.made)
              => ret.val = last[ret.key].val

\* C17 witness: a region configured with a wrap list of two proxies has
\* stored a value and handed it back
C17_Witness ==
    /\ ConfigureDone
    /\ Len(last_configure.wrap) = 2
    /\ ret.op = "get"
    /\ ret.kind = "value"
    /\ last[ret.key].op = "set"
    /\ ret.val = Obj

\* get, set, delete and keys
PlainOps == {"get", "set", "delete", "keys"}

\* C18: get, set, delete and keys take one step of their caller, in which no
\* mutex and no registry entry changes, and a caller that is free to start
\* one can do so in every state, whoever holds the mutex of the key
C18_PlainOpsTakeNoLock ==
    /\ [](\A c \in Callers : (FirstIdle(c) /\ ops < MaxOps) =>
            \A k \in HotKeys :
                /\ ENABLED get(c, k)
                /\ ENABLED set(c, k, Obj, None)
                /\ ENABLED delete(c, k)
                /\ ENABLED keys(c, k))
    /\ [][ret'.op \in PlainOps =>
            /\ pc[ret'.c] = "idle"
            /\ pc' = pc
            /\ locked' = locked
            /\ lock_registry' = lock_registry
            /\ mutex' = mutex
            /\ registry' = registry]_vars

\* C18 witness: a get or set or delete of a key has completed while another
\* caller holds the mutex of that key inside its creator
C18_Witness ==
    /\ ret.op \in PlainOps
    /\ \E d \in Callers :
          /\ d # ret.c
          /\ InCreator(d)
          /\ key[d] = ret.key
          /\ locked[mutex[d]] = d

\* a caller is inside get_or_create
InCall(c) == pc[c] # "idle"

\* C19: the get_or_create calls in progress on one key all hold the same
\* mutex, the one the registry has for the key
C19_SameMutexPerKey ==
    \A c \in Callers : InCall(c) =>
        /\ mutex[c] # NoMutex
        /\ lock_registry[key[c]] = mutex[c]
        /\ \A d \in Callers :
              (InCall(d) /\ key[d] = key[c]) => mutex[d] = mutex[c]

\* C19 witness: two calls on one key are in progress, one of them in its
\* creator, and the other waits for the mutex they share
C19_Witness ==
    \E c, d \in Callers :
        /\ c # d
        /\ InCreator(c)
        /\ Blocked(d)
        /\ key[c] = key[d]
        /\ mutex[c] = mutex[d]

\* C20: callers on different keys hold different mutexes, a caller that
\* waits does so for a caller on its own key, and a caller at the mutex
\* finds it free whenever no other caller on its key holds it
C20_PerKeyContention ==
    \A c \in Callers :
        /\ \A d \in Callers :
              (InCall(c) /\ InCall(d) /\ key[c] # key[d])
                  => mutex[c] # mutex[d]
        /\ Blocked(c) => key[locked[mutex[c]]] = key[c]
        /\ (pc[c] = "acquire"
            /\ \A d \in Callers \ {c} :
                  key[d] = key[c] => locked[mutex[d]] # d)
              => locked[mutex[c]] = NoCaller

\* C20 witness: the creators of two different keys run at the same time
C20_Witness ==
    \E c, d \in Callers :
        /\ InCreator(c)
        /\ InCreator(d)
        /\ key[c] # key[d]

\* the step is the double-check read of caller c, and the backend answered
DoubleCheck(c) ==
    /\ pc[c] = "read2"
    /\ StepOf(c)
    /\ generated'[c].exc # BackendError

\* C21: a caller that gets the mutex after the creator of another caller
\* raised re-checks the cache and runs its own creator when nothing is
\* stored; once the creator of a caller has succeeded and stored its value,
\* every caller that gets the mutex after it comes back from the
\* double-check with that value and runs no creator
C21_WaitersAfterRaise ==
    [][\A c \in Callers : DoubleCheck(c) =>
          /\ locked[mutex[c]] = c
          /\ store[key[c]].val = Absent => pc'[c] = "creator"
          /\ last[key[c]].op = "create" =>
                /\ pc'[c] = "release"
                /\ generated'[c].val = last[key[c]].val
                /\ generated'[c].path = "double-check"]_vars
\* C22: when the creator itself signals NeedRegenerationException, the
\* get_or_create call ends with the fatal internal error 'Generation function
\* should have just been called by a concurrent thread'; the signal itself
\* never reaches the caller of get_or_create
C22_SignalIsFatal ==
    [][\A c \in Callers :
          /\ pc[c] = "release"
          /\ StepOf(c)
          /\ generated[c].exc = NeedRegenerationException
          => /\ ret'.op = "get_or_create"
             /\ ret'.kind = "error"
             /\ ret'.val = <<"Exception">>
             /\ ret'.val # NeedRegenerationException]_vars

ValidatedExpiration(e) ==
    /\ ret'.op = "configure"
    /\ last_configure'.expiration_time = e
    /\ last_configure'.outcome \notin {RegionAlreadyConfigured, PluginNotFound}

\* C24: configure stores a numeric expiration_time as given (and None, 'no
\* default', as None), a duration as its whole number of seconds, and
\* rejects every other value, truthy or falsy, with ValidationError, leaving
\* the expiration_time of the region as it was
C24_ExpirationValidated ==
    [][\A a \in ConfigureArgs :
          LET e == a.expiration_time IN
          ValidatedExpiration(e) =>
              IF IsNumber(e) \/ e = None
              THEN /\ last_configure'.outcome # ValidationError
                   /\ expiration_time' = e
              ELSE IF IsTimedelta(e)
              THEN /\ last_configure'.outcome # ValidationError
                   /\ expiration_time' = WholeSeconds(e)
              ELSE /\ last_configure'.outcome = ValidationError
                   /\ expiration_time' = expiration_time]_vars

\* C25: wrap with a valid proxy on a region that has a backend makes the
\* proxy the outermost element of the chain, around the chain as it was, so
\* that a value on its way to the backend passes the new proxy first; wrap
\* with a class that is no proxy raises TypeError and leaves the chain as
\* it was
C25_WrapOutermost ==
    [][\A p \in WrapArgs :
          (ret'.op = "wrap" /\ ret'.key = <<p>> /\ raw # NoObject) =>
              IF p \in ProxyClasses
              THEN /\ ret'.kind = "value"
                   /\ Head(backend') = p
                   /\ Tail(backend') = backend
                   /\ raw' = raw
                   /\ \A v \in Values :
                         ProxySet(backend', v) =
                             ProxySet(backend, serialize(p, v))
              ELSE /\ ret'.kind = "error"
                   /\ ret'.val = TypeError
                   /\ backend' = backend]_vars

\* a proxy has been wrapped around a chain of proxies
C25_Witness ==
    /\ ret.op = "wrap"
    /\ ret.kind = "value"
    /\ Len(backend) > 1
    /\ <<Head(backend)>> = ret.key

\* C26: an error of the backend reaches the caller as it is and nothing is
\* retried. A failed backend call inside the mutex leaves only the finally
\* to run; the step in which a call ends with the error of the backend
\* makes no backend write and no creator call and leaves the caller without
\* a mutex; a failure of the first read of get_or_create touches no mutex
C26_BackendErrorsPropagate ==
    [][\A c \in Callers :
          /\ generated'[c].exc = BackendError => pc'[c] = "release"
          /\ (pc[c] = "release" /\ StepOf(c)
                  /\ generated[c].exc = BackendError) =>
                /\ ret'.c = c
                /\ ret'.kind = "error"
                /\ ret'.val = BackendError
                /\ locked'[mutex[c]] = NoCaller
          /\ (ret'.c = c /\ ret'.val = BackendError) =>
                /\ ret'.kind = "error"
                /\ pc'[c] = "idle"
                /\ store' = store
                /\ last' = last
                /\ creatorCalls' = creatorCalls
                /\ \A m \in MutexIds : locked'[m] # c
          /\ (ret'.c = c /\ ret'.val = BackendError
                  /\ ret'.path = "read1") =>
                /\ locked' = locked
                /\ \A m \in MutexIds : locked[m] # c]_vars

\* the write of a created value failed and the call has ended with the
\* error of the backend, while another caller waits for the mutex
C26_Witness ==
    /\ ret.op = "get_or_create"
    /\ ret.kind = "error"
    /\ ret.val = BackendError
    /\ ret.path = "created"
    /\ \E d \in Callers :
           /\ pc[d] = "acquire"
           /\ key[d] = ret.key
           /\ locked[mutex[d]] = NoCaller

\* the keys get, set, delete and get_or_create are called with, as the
\* mangler of the region maps them
MangledKeys == {key_mangler \o k : k \in Keys}

\* C27: with a key mangler, get, set, delete and get_or_create reach the
\* backend and the mutex registry under mangler(K) only: nothing is ever
\* written, deleted, created or locked under a raw key, so what one of them
\* wrote under K a get or a get_or_create of K finds; keys(pattern) gives
\* the pattern to the backend as it is and returns the keys of the backend
\* as they are, mangled
C27_ManglingUniform ==
    key_mangler # None =>
        /\ \A k \in Keys :
              /\ store[k].val = Absent
              /\ last[k].op = "none"
              /\ lock_registry[k] = NoMutex
              /\ creatorCalls[k] = 0
        /\ \A c \in Callers : InCall(c) => key[c] \in MangledKeys
        /\ ret.op \in {"get", "set", "delete", "get_or_create"} =>
              ret.key \in MangledKeys
        /\ ((ret.op = "get" \/ ret.path = "fast") /\ ret.kind = "value"
               /\ last[ret.key].op \in {"set", "create"}) =>
              ret.val = last[ret.key].val
        /\ (ret.op = "keys" /\ ret.kind = "value") =>
              /\ ret.key \in Patterns
              /\ ret.val = <<"keys">> \o RedisKeys(ret.key, 1)
              /\ ret.key \in Keys => ret.val = <<"keys">>

\* with a mangler, a value was written under a key; keys('*') lists the
\* mangled key, or a get of the key finds the value
C27_Witness ==
    /\ key_mangler # None
    /\ \/ /\ ret.op = "keys"
          /\ ret.key = <<"*">>
          /\ ret.kind = "value"
          /\ \E k \in MangledKeys : ret.val = <<"keys">> \o k
       \/ /\ ret.op = "get"
          /\ ret.val = Obj
          /\ last[ret.key].op = "create"

\* the step begins a get_or_create of key k by caller c while no other call
\* for k is in progress
FirstInterest(c, k) ==
    /\ pc[c] = "idle"
    /\ pc'[c] = "read1"
    /\ key'[c] = k
    /\ \A d \in Callers : ~(InCall(d) /\ key[d] = k)

C29_WriteBeforeRelease ==
    [][\A c \in Callers :
          /\ pc[c] = "write" => locked[mutex[c]] = c
          /\ (pc[c] = "write" /\ StepOf(c)) =>
                /\ pc'[c] = "release"
                /\ locked'[mutex[c]] = c
          /\ (DoubleCheck(c) /\ last[key[c]].op = "create") =>
                /\ pc'[c] = "release"
                /\ generated'[c].val = last[key[c]].val
                /\ creatorCalls' = creatorCalls]_vars

\* the last write under the key of caller c is a created None, still there
CreatedNone(c) ==
    /\ last[key[c]].op = "create"
    /\ last[key[c]].val = None
    /\ store[key[c]].val = ProxySet(backend, None)

C31_BalancedLocking ==
    [][/\ \A m \in MutexIds :
            locked'[m] # locked[m] =>
                \E c \in Callers :
                    /\ mutex[c] = m
                    /\ StepOf(c)
                    /\ \/ /\ pc[c] = "acquire"
                          /\ locked[m] = NoCaller
                          /\ locked'[m] = c
                       \/ /\ pc[c] = "release"
                          /\ locked[m] = c
                          /\ locked'[m] = NoCaller
       /\ \A c \in Callers :
            /\ (pc[c] = "acquire" /\ StepOf(c)) =>
                  /\ \A m \in MutexIds : locked[m] # c
                  /\ locked'[mutex[c]] = c
                  /\ pc'[c] = "read2"
            /\ (pc[c] = "release" /\ StepOf(c)) =>
                  /\ locked[mutex[c]] = c
                  /\ locked'[mutex[c]] = NoCaller
            /\ (pc[c] \in {"idle", "read1"} /\ StepOf(c)) =>
                  /\ locked' = locked
                  /\ \A m \in MutexIds : locked[m] # c
            /\ pc'[c] = "idle" => \A m \in MutexIds : locked'[m] # c
            /\ pc'[c] = "acquire" => pc[c] \in {"read1", "acquire"}]_vars

\* a call has released its mutex after its double-check found a value,
\* while another caller holds the mutex of another key
C31_Witness ==
    /\ ret.op = "get_or_create"
    /\ ret.path = "double-check"
    /\ ret.kind = "value"
    /\ \A m \in MutexIds : locked[m] # ret.c
    /\ \E d \in Callers :
          /\ InCall(d)
          /\ key[d] # ret.key
          /\ locked[mutex[d]] = d

====
